---------------------------- MODULE Spec2Model ----------------------------
(***************************************************************************)
(* A model of svsh's supervisor adapters (package svsh): the Runit and S6  *)
(* adapters' Status, Start, Stop, Restart, Signal and Fg operations, the   *)
(* shared helpers serviceDirs, mapStrings and findLogFile, and the text    *)
(* they parse and produce.                                                 *)
(*                                                                         *)
(* Text (service names, paths, tool output, error messages) is a sequence  *)
(* of one-character strings, so that the regular expressions, the number   *)
(* conversions, the quoting of %q and the byte-wise order of sort.Strings  *)
(* are computed character by character, as the code computes them.         *)
(***************************************************************************)
EXTENDS Integers, Sequences, FiniteSets, TLC

VARIABLES
    suite,      \* which adapter is bound: "runit" or "s6"
    DebugMode,  \* the adapter's DebugMode field
    baseDir,    \* the base directory: [ok, files], files a set of [name, isDir]
    svstat,     \* the status tool's answer for each service directory
    call,       \* the operation called last, with its arguments and the outcomes of its commands
    cmds,       \* the external commands run by the call, in order
    ret,        \* what the call returned
    proc,       \* what Fg finds: the status of the service and /proc of its logger
    fg,         \* the Fg calls: the tail children, the signal tasks, their channels
    tree,       \* the system's processes: [ok, procs, gone], procs a function from pids to names
    kills       \* the signals syscall.Kill delivered, in order: [pid, sig]

vars == <<suite, DebugMode, baseDir, svstat, call, cmds, ret, proc, fg, tree, kills>>

-----------------------------------------------------------------------------
(* Bounds of the model. *)

\* The base directory holds at most this many entries ...
MaxEntries == 3

\* ... of which at most this many are answered by the status tool with a
\* text other than the plain ones.
MaxDirs == 2

\* A control operation is called with at most this many service names.
MaxSvcs == 2

\* The logger process has at most this many open descriptors.
MaxFds == 2

\* Fg starts a tail child at most this many times.
MaxFgCalls == 2

\* The most processes in the process tree.
MaxProcs == 2

-----------------------------------------------------------------------------
(* Text. *)

\* The characters of the model in byte order (ASCII), for comparisons.
Alphabet ==
    <<"\n", " ", "!", "\"", "%", "(", ")", "-", ".", "/",
      "0", "1", "2", "3", "4", "5", "6", "7", "8", "9", ":", ";", "<", ">",
      "\\", "a", "b", "c", "d", "e", "f", "g", "h", "i", "j", "k", "l", "m",
      "n", "o", "p", "q", "r", "s", "t", "u", "v", "w", "x", "y", "z">>

Ord(c) == CHOOSE i \in 1..Len(Alphabet) : Alphabet[i] = c

Digits == <<"0", "1", "2", "3", "4", "5", "6", "7", "8", "9">>

IsDigit(c) == \E i \in 1..Len(Digits) : Digits[i] = c

DigitVal(c) == (CHOOSE i \in 1..Len(Digits) : Digits[i] = c) - 1

\* s[i..j], empty when j < i.
Sub(s, i, j) == IF j < i THEN <<>> ELSE SubSeq(s, i, j)

\* Whether the literal lit stands in s at position i.
HasAt(s, i, lit) ==
    /\ i >= 1
    /\ i + Len(lit) - 1 <= Len(s)
    /\ \A k \in 1..Len(lit) : s[i + k - 1] = lit[k]

\* strings.Contains
Contains(s, sub) == \E i \in 1..(Len(s) + 1) : HasAt(s, i, sub)

\* strings.HasPrefix
HasPrefix(s, prefix) == HasAt(s, 1, prefix)

\* The first position >= i of s that holds the character c, Len(s) + 1 if none:
\* where a greedy [^c]+ starting at i stops.
RECURSIVE SpanNot(_, _, _)
SpanNot(s, i, c) ==
    IF i > Len(s) \/ s[i] = c THEN i ELSE SpanNot(s, i + 1, c)

\* The first position >= i of s that holds no digit: where a greedy \d+ stops.
RECURSIVE SpanDigits(_, _)
SpanDigits(s, i) ==
    IF i > Len(s) \/ ~IsDigit(s[i]) THEN i ELSE SpanDigits(s, i + 1)

\* The first position >= i of s that holds a digit or a dot: where the unit
\* of a duration ends.
RECURSIVE SpanUnit(_, _)
SpanUnit(s, i) ==
    IF i > Len(s) \/ IsDigit(s[i]) \/ s[i] = "." THEN i ELSE SpanUnit(s, i + 1)

\* An error value: nil, or a message.
NoError == [nil |-> TRUE, msg |-> <<>>]

Err(msg) == [nil |-> FALSE, msg |-> msg]

\* strconv.Quote, the %q of fmt: the text between double quotes, with the
\* double quote, the backslash and the newline escaped.
RECURSIVE Escape(_)
Escape(s) ==
    IF s = <<>> THEN <<>>
    ELSE (CASE Head(s) = "\"" -> <<"\\", "\"">>
            [] Head(s) = "\\" -> <<"\\", "\\">>
            [] Head(s) = "\n" -> <<"\\", "n">>
            [] OTHER -> <<Head(s)>>) \o Escape(Tail(s))

Quote(s) == <<"\"">> \o Escape(s) \o <<"\"">>

\* strconv.Atoi: [val, err]. A text that is not all digits is an error with
\* value 0. (The digit strings of the model are short: every number fits an
\* int, and the range error of a 20-digit number does not arise.)
RECURSIVE DecimalValue(_)
DecimalValue(s) ==
    IF s = <<>> THEN 0
    ELSE 10 * DecimalValue(Sub(s, 1, Len(s) - 1)) + DigitVal(s[Len(s)])

Atoi(s) ==
    IF s # <<>> /\ \A i \in 1..Len(s) : IsDigit(s[i])
    THEN [val |-> DecimalValue(s), err |-> NoError]
    ELSE [val |-> 0,
          err |-> Err(<<"s", "t", "r", "c", "o", "n", "v", ".", "A", "t", "o", "i", ":", " ", "p", "a", "r", "s", "i", "n", "g", " ">> \o Quote(s) \o <<":", " ", "i", "n", "v", "a", "l", "i", "d", " ", "s", "y", "n", "t", "a", "x">>)]

\* strconv.Itoa for n >= 0, as the tools print a pid or a number of seconds.
RECURSIVE Itoa(_)
Itoa(n) ==
    IF n < 10 THEN <<Digits[n + 1]>>
    ELSE Itoa(n \div 10) \o <<Digits[(n % 10) + 1]>>

\* The units of time.ParseDuration, in seconds: the model counts a Duration
\* in whole seconds, so the units below one second are left out.
unitMap(u) ==
    CASE u = <<"s">> -> 1
      [] u = <<"m">> -> 60
      [] u = <<"h">> -> 3600
      [] OTHER -> 0

\* time.ParseDuration: [val, err], val in seconds and 0 on an error. "0" alone
\* is the zero duration; otherwise the text is a sequence of <digits><unit>,
\* and a number without a unit is an error.
RECURSIVE ParseDurationFrom(_, _)
ParseDurationFrom(s, i) ==
    IF i > Len(s) THEN [val |-> 0, err |-> NoError]
    ELSE LET d == SpanDigits(s, i)
             u == SpanUnit(s, d)
             unit == unitMap(Sub(s, d, u - 1))
             rest == ParseDurationFrom(s, u)
         IN  IF d = i
             THEN [val |-> 0, err |-> Err(<<"t", "i", "m", "e", ":", " ", "i", "n", "v", "a", "l", "i", "d", " ", "d", "u", "r", "a", "t", "i", "o", "n", " ">> \o s)]
             ELSE IF u = d
             THEN [val |-> 0, err |-> Err(<<"t", "i", "m", "e", ":", " ", "m", "i", "s", "s", "i", "n", "g", " ", "u", "n", "i", "t", " ", "i", "n", " ", "d", "u", "r", "a", "t", "i", "o", "n", " ">> \o s)]
             ELSE IF unit = 0
             THEN [val |-> 0,
                   err |-> Err(<<"t", "i", "m", "e", ":", " ", "u", "n", "k", "n", "o", "w", "n", " ", "u", "n", "i", "t", " ">> \o Sub(s, d, u - 1)
                               \o <<" ", "i", "n", " ", "d", "u", "r", "a", "t", "i", "o", "n", " ">> \o s)]
             ELSE IF ~rest.err.nil
             THEN [val |-> 0, err |-> rest.err]
             ELSE [val |-> DecimalValue(Sub(s, i, d - 1)) * unit + rest.val,
                   err |-> NoError]

ParseDuration(s) ==
    IF s = <<"0">> THEN [val |-> 0, err |-> NoError]
    ELSE IF s = <<>> THEN [val |-> 0, err |-> Err(<<"t", "i", "m", "e", ":", " ", "i", "n", "v", "a", "l", "i", "d", " ", "d", "u", "r", "a", "t", "i", "o", "n", " ">>)]
    ELSE ParseDurationFrom(s, 1)

\* Byte-wise lexicographic order, the order of sort.Strings.
RECURSIVE StrLess(_, _)
StrLess(a, b) ==
    IF b = <<>> THEN FALSE
    ELSE IF a = <<>> THEN TRUE
    ELSE IF Head(a) = Head(b) THEN StrLess(Tail(a), Tail(b))
    ELSE Ord(Head(a)) < Ord(Head(b))

\* sort.Strings, as an insertion sort.
RECURSIVE InsertSorted(_, _)
InsertSorted(x, s) ==
    IF s = <<>> THEN <<x>>
    ELSE IF StrLess(Head(s), x) THEN <<Head(s)>> \o InsertSorted(x, Tail(s))
    ELSE <<x>> \o s

RECURSIVE SortStrings(_)
SortStrings(s) ==
    IF s = <<>> THEN <<>> ELSE InsertSorted(Head(s), SortStrings(Tail(s)))

\* The position of the last "/" of p, 0 if none.
RECURSIVE LastSlash(_, _)
LastSlash(p, i) ==
    IF i = 0 \/ p[i] = "/" THEN i ELSE LastSlash(p, i - 1)

\* p without its trailing slashes.
RECURSIVE StripSlashes(_)
StripSlashes(p) ==
    IF p # <<>> /\ p[Len(p)] = "/" THEN StripSlashes(Sub(p, 1, Len(p) - 1)) ELSE p

\* filepath.Base: the last element of the path; "." for the empty path and
\* "/" for a path of slashes only.
Base(p) ==
    IF p = <<>> THEN <<".">>
    ELSE LET q == StripSlashes(p)
         IN  IF q = <<>> THEN <<"/">>
             ELSE Sub(q, LastSlash(q, Len(q)) + 1, Len(q))

\* filepath.Join of two elements: empty elements are ignored. (The names of
\* the model hold no ".", ".." or doubled slash for Clean to rewrite.)
Join(a, b) ==
    IF a = <<>> THEN b
    ELSE IF b = <<>> THEN a
    ELSE a \o <<"/">> \o b

-----------------------------------------------------------------------------
(* Errors and the data model. *)

ErrUnsupportedCommand == Err(<<"c", "o", "m", "m", "a", "n", "d", " ", "i", "s", " ", "n", "o", "t", " ", "s", "u", "p", "p", "o", "r", "t", "e", "d", " ", "b", "y", " ", "t", "h", "e", " ", "s", "u", "p", "e", "r", "v", "i", "s", "o", "r">>)

ErrUnsupportedSignal == Err(<<"s", "e", "n", "d", "i", "n", "g", " ", "t", "h", "i", "s", " ", "s", "i", "g", "n", "a", "l", " ", "i", "s", " ", "u", "n", "s", "u", "p", "p", "o", "r", "t", "e", "d", " ", "b", "y", " ", "t", "h", "e", " ", "s", "u", "p", "e", "r", "v", "i", "s", "o", "r">>)

\* The error of exec's CombinedOutput for a command that ran and failed.
ExitError == Err(<<"e", "x", "i", "t", " ", "s", "t", "a", "t", "u", "s", " ", "1">>)

StatusUp == "Up"
StatusDown == "Down"
StatusResetting == "Resetting"
StatusBackoff == "Backoff"
StatusDisabled == "Disabled"
StatusUnknown == "Unknown"

\* A Service value.
Service(name, status, pid, duration) ==
    [Name |-> name, Status |-> status, Pid |-> pid, Duration |-> duration]

\* The adapter's BaseDir field.
BaseDir == <<"/", "s", "e", "r", "v", "i", "c", "e">>

-----------------------------------------------------------------------------
(* The base directory and the status tools. *)

\* serviceDirs: [dirs, err], the names of the entries of the base directory
\* that are directories, sorted. listing is what ioutil.ReadDir returned, in
\* the order the model lets the system list the directory (any order: the
\* result does not rest on the library's own sorting).
RECURSIVE DirNames(_)
DirNames(listing) ==
    IF listing = <<>> THEN <<>>
    ELSE (IF Head(listing).isDir THEN <<Head(listing).name>> ELSE <<>>)
         \o DirNames(Tail(listing))

\* The error of ioutil.ReadDir on a base directory that cannot be read.
ReadDirError == Err(<<"o", "p", "e", "n", " ">> \o BaseDir \o <<":", " ", "n", "o", " ", "s", "u", "c", "h", " ", "f", "i", "l", "e", " ", "o", "r", " ", "d", "i", "r", "e", "c", "t", "o", "r", "y">>)

serviceDirs_Unsorted(listing) ==
    IF ~baseDir.ok
    THEN [dirs |-> <<>>,
          err |-> Err(<<"f", "a", "i", "l", "e", "d", " ", "r", "e", "a", "d", "i", "n", "g", " ", "b", "a", "s", "e", " ", "d", "i", "r", "e", "c", "t", "o", "r", "y", " ">> \o Quote(BaseDir)
                      \o <<":", " ">> \o ReadDirError.msg)]
    ELSE [dirs |-> DirNames(listing), err |-> NoError]

serviceDirs(listing) ==
    IF ~baseDir.ok
    THEN [dirs |-> <<>>,
          err |-> Err(<<"f", "a", "i", "l", "e", "d", " ", "r", "e", "a", "d", "i", "n", "g", " ", "b", "a", "s", "e", " ", "d", "i", "r", "e", "c", "t", "o", "r", "y", " ">> \o Quote(BaseDir)
                      \o <<":", " ">> \o ReadDirError.msg)]
    ELSE [dirs |-> SortStrings(DirNames(listing)), err |-> NoError]

\* The orders in which a directory of these files can be listed.
Listings(files) ==
    {l \in [1..Cardinality(files) -> files] :
        \A i, j \in 1..Cardinality(files) : i # j => l[i] # l[j]}

\* The status tool run on a service directory (given by name, or by path):
\* its combined output and whether it failed.
StatusTool(arg) == svstat[Base(arg)]

\* A variant of runitStatusRegexp without the middle section:
\*     ^([^:]+):(?: \(pid (\d+)\))? (\d+s)
runitStatusRegexp_NoMiddle(raw) ==
    LET a == SpanNot(raw, 1, ":")
        p == a + 1
        d1 == p + 6
        d2 == SpanDigits(raw, d1)
        withPid == HasAt(raw, p, <<" ", "(", "p", "i", "d", " ">>) /\ d2 > d1 /\ HasAt(raw, d2, <<")">>)
        q == IF withPid THEN d2 + 1 ELSE p
        e1 == q + 1
        e2 == SpanDigits(raw, e1)
    IN  IF /\ a > 1 /\ a <= Len(raw)
           /\ HasAt(raw, q, <<" ">>) /\ e2 > e1 /\ HasAt(raw, e2, <<"s">>)
        THEN <<Sub(raw, 1, e2),
               Sub(raw, 1, a - 1),
               IF withPid THEN Sub(raw, d1, d2 - 1) ELSE <<>>,
               Sub(raw, e1, e2)>>
        ELSE <<>>

\* runitStatusRegexp.FindSubmatch:
\*     ^([^:]+):[^:]+:(?: \(pid (\d+)\))? (\d+s)
\* <<>> when the text does not match, else the match and its three groups
\* (an optional group that took no part is empty).
runitStatusRegexp(raw) ==
    LET a == SpanNot(raw, 1, ":")
        b == SpanNot(raw, a + 1, ":")
        p == b + 1
        d1 == p + 6
        d2 == SpanDigits(raw, d1)
        withPid == HasAt(raw, p, <<" ", "(", "p", "i", "d", " ">>) /\ d2 > d1 /\ HasAt(raw, d2, <<")">>)
        q == IF withPid THEN d2 + 1 ELSE p
        e1 == q + 1
        e2 == SpanDigits(raw, e1)
    IN  IF /\ a > 1 /\ a <= Len(raw)
           /\ b > a + 1 /\ b <= Len(raw)
           /\ HasAt(raw, q, <<" ">>) /\ e2 > e1 /\ HasAt(raw, e2, <<"s">>)
        THEN <<Sub(raw, 1, e2),
               Sub(raw, 1, a - 1),
               IF withPid THEN Sub(raw, d1, d2 - 1) ELSE <<>>,
               Sub(raw, e1, e2)>>
        ELSE <<>>

\* s6StatusRegexp at position i of the text:
\*     (up|down) \(([^\)]+)\) (\d+)/
s6StatusAt(raw, i) ==
    LET w == IF HasAt(raw, i, <<"u", "p">>) THEN 2
             ELSE IF HasAt(raw, i, <<"d", "o", "w", "n">>) THEN 4 ELSE 0
        b1 == i + w + 2
        b2 == SpanNot(raw, b1, ")")
        d1 == b2 + 2
        d2 == SpanDigits(raw, d1)
    IN  IF /\ w > 0
           /\ HasAt(raw, i + w, <<" ", "(">>)
           /\ b2 > b1 /\ HasAt(raw, b2, <<")", " ">>)
           /\ d2 > d1 /\ HasAt(raw, d2, <<"/">>)
        THEN <<Sub(raw, i, d2),
               Sub(raw, i, i + w - 1),
               Sub(raw, b1, b2 - 1),
               Sub(raw, d1, d2 - 1)>>
        ELSE <<>>

\* s6StatusRegexp.FindSubmatch: the leftmost match.
RECURSIVE s6StatusFrom(_, _)
s6StatusFrom(raw, i) ==
    IF i > Len(raw) THEN <<>>
    ELSE IF s6StatusAt(raw, i) # <<>> THEN s6StatusAt(raw, i)
    ELSE s6StatusFrom(raw, i + 1)

s6StatusRegexp(raw) == s6StatusFrom(raw, 1)

\* A regular expression  <lit>(\d+)<close>  searched in the text from
\* position i on: the leftmost match and its group, <<>> if none.
RECURSIVE FindNumberAfter(_, _, _, _)
FindNumberAfter(txt, i, lit, close) ==
    IF i > Len(txt) THEN <<>>
    ELSE LET d1 == i + Len(lit)
             d2 == SpanDigits(txt, d1)
         IN  IF HasAt(txt, i, lit) /\ d2 > d1 /\ HasAt(txt, d2, close)
             THEN <<Sub(txt, i, d2 + Len(close) - 1), Sub(txt, d1, d2 - 1)>>
             ELSE FindNumberAfter(txt, i + 1, lit, close)

\* s6PidRegexp.FindSubmatch:  pid (\d+)
s6PidRegexp(txt) == FindNumberAfter(txt, 1, <<"p", "i", "d", " ">>, <<>>)

\* runitLoggerRegexp.FindSubmatch:  log: \(pid (\d+)\)
runitLoggerRegexp(txt) == FindNumberAfter(txt, 1, <<"l", "o", "g", ":", " ", "(", "p", "i", "d", " ">>, <<")">>)

-----------------------------------------------------------------------------
(* Status. *)

\* Runit.runCmd: the command line of "sv" and its environment.
RunitCmd(subCmd, args) ==
    [argv |-> <<<<"s", "v">>, subCmd>> \o args, env |-> <<<<"S", "V", "D", "I", "R", "=">> \o BaseDir>>]

\* S6.runCmd: the command line; the environment is the caller's.
S6Cmd(cmdName, subCmd, args) ==
    [argv |-> <<cmdName, subCmd>> \o args, env |-> <<>>]

\* What one pass of a Status loop ends in: the next directory ("continue"),
\* a Service to append, or the return of an error.
Continue == [kind |-> "continue", svc |-> <<>>, err |-> NoError]

AppendSvc(svc) == [kind |-> "append", svc |-> svc, err |-> NoError]

Return(err) == [kind |-> "return", svc |-> <<>>, err |-> err]

\* The body of the loop of Runit.Status for one directory, from the match
\* of the status text on: svcName is the service, out the tool's answer and
\* matches the submatches of runitStatusRegexp in out.raw.
RunitStatusParse(svcName, debug, out, matches) ==
    LET word == matches[2]
        known == word \in {<<"r", "u", "n">>, <<"d", "o", "w", "n">>, <<"b", "a", "c", "k", "o", "f", "f">>, <<"d", "i", "s", "a", "b", "l", "e", "d">>}
        status == CASE word = <<"r", "u", "n">> -> StatusUp
                    [] word = <<"d", "o", "w", "n">> -> StatusDown
                    [] word = <<"b", "a", "c", "k", "o", "f", "f">> -> StatusBackoff
                    [] word = <<"d", "i", "s", "a", "b", "l", "e", "d">> -> StatusDisabled
                    [] OTHER -> StatusUnknown
        pid == IF Len(matches[3]) > 0 THEN Atoi(matches[3])
               ELSE [val |-> 0, err |-> NoError]
        dur == IF Len(matches[4]) > 0 THEN ParseDuration(matches[4])
               ELSE [val |-> 0, err |-> NoError]
    IN  IF out.fail
        THEN IF debug
             THEN Return(Err(<<"f", "a", "i", "l", "e", "d", " ", "r", "e", "a", "d", "i", "n", "g", " ", "s", "t", "a", "t", "u", "s", " ", "o", "f", " ">> \o Quote(svcName)
                             \o <<":", " ">> \o ExitError.msg))
             ELSE Continue
        ELSE IF Len(matches) # 4
        THEN IF debug
             THEN Return(Err(<<"f", "a", "i", "l", "e", "d", " ", "p", "a", "r", "s", "i", "n", "g", " ">> \o Quote(svcName)
                             \o <<" ", "s", "t", "a", "t", "u", "s", " ", "o", "u", "t", "p", "u", "t", ":", " ">> \o Quote(out.raw)))
             ELSE Continue
        ELSE IF ~known /\ debug
        THEN Return(Err(<<"f", "a", "i", "l", "e", "d", " ", "p", "a", "r", "s", "i", "n", "g", " ">> \o Quote(svcName)
                        \o <<" ", "s", "t", "a", "t", "u", "s", ":", " ">> \o Quote(word)))
        ELSE IF ~pid.err.nil /\ debug
        THEN Return(Err(<<"f", "a", "i", "l", "e", "d", " ", "p", "a", "r", "s", "i", "n", "g", " ">> \o Quote(svcName) \o <<" ", "p", "i", "d", " ">>
                        \o Quote(matches[3]) \o <<":", " ">> \o pid.err.msg))
        ELSE IF ~dur.err.nil /\ debug
        THEN Return(Err(<<"f", "a", "i", "l", "e", "d", " ", "p", "a", "r", "s", "i", "n", "g", " ">> \o Quote(svcName) \o <<" ", "d", "u", "r", "a", "t", "i", "o", "n", " ">>
                        \o Quote(matches[4]) \o <<":", " ">> \o dur.err.msg))
        ELSE AppendSvc(Service(svcName, status, pid.val, dur.val))

\* The body of the loop of Runit.Status for one directory: "sv status <dir>"
\* is run and its output matched.
RunitStatusEntry(dir, debug) ==
    RunitStatusParse(Base(dir), debug, StatusTool(dir),
                     runitStatusRegexp(StatusTool(dir).raw))

\* The loop of Runit.Status over the sorted directories: svcs are the
\* services appended so far and log the commands run so far.
RECURSIVE RunitStatusLoop(_, _, _, _)
RunitStatusNext(dirs, debug, svcs, log, e) ==
    CASE e.kind = "return" -> [svcs |-> svcs, err |-> e.err, cmds |-> log]
      [] e.kind = "continue" -> RunitStatusLoop(Tail(dirs), debug, svcs, log)
      [] e.kind = "append" ->
            RunitStatusLoop(Tail(dirs), debug, Append(svcs, e.svc), log)

RunitStatusLoop(dirs, debug, svcs, log) ==
    IF dirs = <<>> THEN [svcs |-> svcs, err |-> NoError, cmds |-> log]
    ELSE RunitStatusNext(dirs, debug, svcs,
                         Append(log, RunitCmd(<<"s", "t", "a", "t", "u", "s">>, <<Head(dirs)>>)),
                         RunitStatusEntry(Head(dirs), debug))

\* Runit.Status once serviceDirs has returned d: [svcs, err, cmds].
RunitStatusIn(d, debug) ==
    IF ~d.err.nil
    THEN [svcs |-> <<>>,
          err |-> Err(<<"f", "a", "i", "l", "e", "d", " ", "f", "i", "n", "d", "i", "n", "g", " ", "s", "e", "r", "v", "i", "c", "e", " ", "d", "i", "r", "e", "c", "t", "o", "r", "i", "e", "s", ":", " ">> \o d.err.msg),
          cmds |-> <<>>]
    ELSE RunitStatusLoop(d.dirs, debug, <<>>, <<>>)

\* Runit.Status: [svcs, err, cmds].
RunitStatus(listing, debug) == RunitStatusIn(serviceDirs(listing), debug)

\* The body of the loop of S6.Status for one directory, from the match of
\* the status text on: matches are the submatches of s6StatusRegexp in
\* out.raw, and pm those of s6PidRegexp in the detail.
S6StatusParse(svcName, debug, out, matches, pm) ==
    LET word == matches[2]
        known == word \in {<<"u", "p">>, <<"d", "o", "w", "n">>}
        status == CASE word = <<"u", "p">> -> StatusUp
                    [] word = <<"d", "o", "w", "n">> -> StatusDown
                    [] OTHER -> StatusUnknown
        pid == IF Len(pm) = 2 THEN Atoi(pm[2])
               ELSE [val |-> 0, err |-> NoError]
        dur == IF Len(matches[4]) > 0 THEN ParseDuration(matches[4])
               ELSE [val |-> 0, err |-> NoError]
    IN  IF out.fail
        THEN IF debug
             THEN Return(Err(<<"f", "a", "i", "l", "e", "d", " ", "r", "e", "a", "d", "i", "n", "g", " ", "s", "t", "a", "t", "u", "s", " ", "o", "f", " ">> \o Quote(svcName)
                             \o <<":", " ">> \o ExitError.msg))
             ELSE Continue
        ELSE IF Len(matches) # 4
        THEN IF debug
             THEN Return(Err(<<"f", "a", "i", "l", "e", "d", " ", "p", "a", "r", "s", "i", "n", "g", " ">> \o Quote(svcName)
                             \o <<" ", "s", "t", "a", "t", "u", "s", " ", "o", "u", "t", "p", "u", "t", ":", " ">> \o Quote(out.raw)))
             ELSE Continue
        ELSE IF ~known /\ debug
        THEN Return(Err(<<"f", "a", "i", "l", "e", "d", " ", "p", "a", "r", "s", "i", "n", "g", " ">> \o Quote(svcName)
                        \o <<" ", "s", "t", "a", "t", "u", "s", ":", " ">> \o Quote(word)))
        ELSE IF ~pid.err.nil /\ debug
        THEN Return(Err(<<"f", "a", "i", "l", "e", "d", " ", "p", "a", "r", "s", "i", "n", "g", " ">> \o Quote(svcName) \o <<" ", "p", "i", "d", " ">>
                        \o Quote(pm[2]) \o <<":", " ">> \o pid.err.msg))
        ELSE IF ~dur.err.nil /\ debug
        THEN Return(Err(<<"f", "a", "i", "l", "e", "d", " ", "p", "a", "r", "s", "i", "n", "g", " ">> \o Quote(svcName) \o <<" ", "d", "u", "r", "a", "t", "i", "o", "n", " ">>
                        \o Quote(matches[4]) \o <<":", " ">> \o dur.err.msg))
        ELSE AppendSvc(Service(svcName, status, pid.val, dur.val))

\* The pid submatches in the detail of a matched status text.
S6PidMatches(matches) ==
    IF Len(matches) = 4 /\ Len(matches[3]) > 0 THEN s6PidRegexp(matches[3])
    ELSE <<>>

S6StatusMatched(svcName, debug, out, matches) ==
    S6StatusParse(svcName, debug, out, matches, S6PidMatches(matches))

\* The body of the loop of S6.Status for one directory: "s6-svstat
\* <BaseDir>/<dir>" is run and its output matched.
S6StatusEntry(dir, debug) ==
    S6StatusMatched(Base(dir), debug, StatusTool(Join(BaseDir, dir)),
                    s6StatusRegexp(StatusTool(Join(BaseDir, dir)).raw))

\* The loop of S6.Status over the sorted directories.
RECURSIVE S6StatusLoop(_, _, _, _)
S6StatusNext(dirs, debug, svcs, log, e) ==
    CASE e.kind = "return" -> [svcs |-> svcs, err |-> e.err, cmds |-> log]
      [] e.kind = "continue" -> S6StatusLoop(Tail(dirs), debug, svcs, log)
      [] e.kind = "append" ->
            S6StatusLoop(Tail(dirs), debug, Append(svcs, e.svc), log)

S6StatusLoop(dirs, debug, svcs, log) ==
    IF dirs = <<>> THEN [svcs |-> svcs, err |-> NoError, cmds |-> log]
    ELSE S6StatusNext(dirs, debug, svcs,
                      Append(log, S6Cmd(<<"s", "6", "-", "s", "v", "s", "t", "a", "t">>, Join(BaseDir, Head(dirs)), <<>>)),
                      S6StatusEntry(Head(dirs), debug))

\* S6.Status once serviceDirs has returned d: [svcs, err, cmds].
S6StatusIn(d, debug) ==
    IF ~d.err.nil
    THEN [svcs |-> <<>>,
          err |-> Err(<<"f", "a", "i", "l", "e", "d", " ", "f", "i", "n", "d", "i", "n", "g", " ", "s", "e", "r", "v", "i", "c", "e", " ", "d", "i", "r", "e", "c", "t", "o", "r", "i", "e", "s", ":", " ">> \o d.err.msg),
          cmds |-> <<>>]
    ELSE S6StatusLoop(d.dirs, debug, <<>>, <<>>)

\* S6.Status: [svcs, err, cmds].
S6Status(listing, debug) == S6StatusIn(serviceDirs(listing), debug)

\* Status() of the bound adapter, through the Supervisor interface.
StatusOf(listing, debug) ==
    IF suite = "runit" THEN RunitStatus(listing, debug) ELSE S6Status(listing, debug)

-----------------------------------------------------------------------------
(* What the status tools print. *)

\* The service names a base directory may hold.
NamePool == {<<"a", "p", "p">>, <<"d", "b">>, <<"l", "o", "g">>, <<"w", "e", "b">>}

\* A line of "sv status" for a service: <state>: <name>:[ (pid N)] Ms, with
\* the pid when pid > 0.
RunitLine(word, name, pid, secs) ==
    word \o <<":", " ">> \o name \o <<":">>
    \o (IF pid > 0 THEN <<" ", "(", "p", "i", "d", " ">> \o Itoa(pid) \o <<")">> ELSE <<>>)
    \o <<" ">> \o Itoa(secs) \o <<"s", "\n">>

\* What sv reports: a state word, a pid (0: none is printed), the seconds.
\* "run" and "finish" are printed with the pid of the running process;
\* "backoff" and "disabled" are words the adapter also knows.
RunitReports ==
    {<<<<"r", "u", "n">>, 123, 45>>, <<<<"f", "i", "n", "i", "s", "h">>, 7, 3>>, <<<<"d", "o", "w", "n">>, 0, 12>>,
     <<<<"b", "a", "c", "k", "o", "f", "f">>, 0, 1>>, <<<<"d", "i", "s", "a", "b", "l", "e", "d">>, 0, 0>>}

\* Status texts without the middle section, one with and one without a pid.
RunitShortLines == {<<"r", "u", "n", ":", " ", "(", "p", "i", "d", " ", "1", "2", "3", ")", " ", "4", "5", "s">>, <<"d", "o", "w", "n", ":", " ", "1", "2", "s">>}

\* A line of s6-svstat in the form the adapter reads:
\* <state> (<detail>) <seconds>/
S6Line(word, detail, secs) ==
    word \o <<" ", "(">> \o detail \o <<")", " ">> \o Itoa(secs) \o <<"/", "\n">>

S6Reports ==
    {<<<<"u", "p">>, <<"p", "i", "d", " ", "1", "2", "3">>, 45>>, <<<<"u", "p">>, <<"p", "i", "d", " ", "7">>, 0>>,
     <<<<"d", "o", "w", "n">>, <<"e", "x", "i", "t", "c", "o", "d", "e", " ", "0">>, 12>>, <<<<"d", "o", "w", "n">>, <<"e", "x", "i", "t", "c", "o", "d", "e", " ", "0">>, 0>>}

\* Output of s6-svstat in another form, and an error message of the tool.
S6OtherLines ==
    {<<"u", "p", " ", "(", "p", "i", "d", " ", "1", "2", "3", ")", " ", "4", "5", " ", "s", "e", "c", "o", "n", "d", "s", "\n">>, <<"s", "6", "-", "s", "v", "s", "t", "a", "t", ":", " ", "f", "a", "t", "a", "l", ":", " ", "u", "n", "a", "b", "l", "e", " ", "t", "o", " ", "r", "e", "a", "d", " ", "s", "t", "a", "t", "u", "s", "\n">>}

\* The answers of the status tool for service name: a text, or a failure.
ToolAnswers(s, name) ==
    {[fail |-> TRUE, raw |-> <<>>]} \cup
    {[fail |-> FALSE, raw |-> t] :
        t \in IF s = "runit"
              THEN {RunitLine(r[1], name, r[2], r[3]) : r \in RunitReports}
                   \cup RunitShortLines
              ELSE {S6Line(r[1], r[2], r[3]) : r \in S6Reports} \cup S6OtherLines}

\* The answers of the status tool for service name: with every = TRUE every
\* text of the model or a failure, else the plain ones: the text of a
\* running service or a failure.
Answers(s, every, name) ==
    IF every THEN ToolAnswers(s, name)
    ELSE {[fail |-> TRUE, raw |-> <<>>],
          [fail |-> FALSE,
           raw |-> IF s = "runit" THEN RunitLine(<<"r", "u", "n">>, name, 123, 45)
                   ELSE S6Line(<<"u", "p">>, <<"p", "i", "d", " ", "1", "2", "3">>, 45)]}

\* The status tool's answers for the directories D: a function on D.
RECURSIVE AnswersFor(_, _, _)
AnswersFor(s, every, D) ==
    IF D = {} THEN {<<>>}
    ELSE LET n == CHOOSE x \in D : TRUE
         IN  {(n :> a) @@ f : a \in Answers(s, every, n),
                              f \in AnswersFor(s, every, D \ {n})}

\* The base directories with the entries S, of which those of K are
\* directories.
BaseDirsOf(s, every, S, K) ==
    {[files |-> {[name |-> n, isDir |-> n \in K] : n \in S}, stat |-> f] :
        f \in AnswersFor(s, every, K)}

\* The base directories of at most max entries.
BaseDirs(s, every, max) ==
    UNION {UNION {BaseDirsOf(s, every, S, K) : K \in SUBSET S} :
             S \in {T \in SUBSET NamePool : Cardinality(T) <= max}}

\* The base directories of the model: up to MaxDirs entries with every
\* answer of the tool, and up to MaxEntries entries with the plain answers.
ModelBaseDirs(s) ==
    BaseDirs(s, TRUE, MaxDirs) \cup BaseDirs(s, FALSE, MaxEntries)

-----------------------------------------------------------------------------
(* Start, Stop, Restart and Signal. *)

\* mapStrings: fn is given as a function of the strings of input.
mapStrings(input, fn) == [i \in 1..Len(input) |-> fn[input[i]]]

\* Runit.fullSvcs
fullSvcs(ss) ==
    mapStrings(ss, [s \in {ss[i] : i \in 1..Len(ss)} |-> Join(BaseDir, s)])

\* S6.fullService
fullService(s) == Join(BaseDir, s)

\* Whether the control tool fails on one of these services: it fails on the
\* services of the set failing.
FailsOn(svcs, failing) == \E i \in 1..Len(svcs) : svcs[i] \in failing

\* One run of "sv <subCmd> <paths...>" over all the services: [err, cmds].
\* The output of the run is dropped and the error of the run is returned.
RunitControl(subCmd, svcs, failing) ==
    [err |-> IF FailsOn(svcs, failing) THEN ExitError ELSE NoError,
     cmds |-> <<RunitCmd(subCmd, fullSvcs(svcs))>>]

RunitStart(svcs, failing) == RunitControl(<<"u", "p">>, svcs, failing)

RunitStop(svcs, failing) == RunitControl(<<"d", "o", "w", "n">>, svcs, failing)

RunitRestart(svcs, failing) == RunitControl(<<"q", "u", "i", "t">>, svcs, failing)

\* A variant of the switch of Runit.Signal with a default command.
RunitSignalCmd_Default(sig) ==
    CASE sig = "SIGSTOP" -> <<"p", "a", "u", "s", "e">>
      [] sig = "SIGCONT" -> <<"c", "o", "n", "t">>
      [] sig = "SIGHUP" -> <<"h", "u", "p">>
      [] sig = "SIGALRM" -> <<"a", "l", "a", "r", "m">>
      [] sig = "SIGINT" -> <<"i", "n", "t", "e", "r", "r", "u", "p", "t">>
      [] sig = "SIGQUIT" -> <<"q", "u", "i", "t">>
      [] sig = "SIGUSR1" -> <<"1">>
      [] sig = "SIGUSR2" -> <<"2">>
      [] sig = "SIGKILL" -> <<"k", "i", "l", "l">>
      [] OTHER -> <<"t", "e", "r", "m">>

\* The switch of Runit.Signal: the sv command of a signal, empty for the
\* default case.
RunitSignalCmd(sig) ==
    CASE sig = "SIGSTOP" -> <<"p", "a", "u", "s", "e">>
      [] sig = "SIGCONT" -> <<"c", "o", "n", "t">>
      [] sig = "SIGHUP" -> <<"h", "u", "p">>
      [] sig = "SIGALRM" -> <<"a", "l", "a", "r", "m">>
      [] sig = "SIGINT" -> <<"i", "n", "t", "e", "r", "r", "u", "p", "t">>
      [] sig = "SIGQUIT" -> <<"q", "u", "i", "t">>
      [] sig = "SIGUSR1" -> <<"1">>
      [] sig = "SIGUSR2" -> <<"2">>
      [] sig = "SIGTERM" -> <<"t", "e", "r", "m">>
      [] sig = "SIGKILL" -> <<"k", "i", "l", "l">>
      [] OTHER -> <<>>

RunitSignal(sig, svcs, failing) ==
    IF RunitSignalCmd(sig) = <<>>
    THEN [err |-> ErrUnsupportedSignal, cmds |-> <<>>]
    ELSE RunitControl(RunitSignalCmd(sig), svcs, failing)

\* The loop of the S6 control operations: one run of "s6-svc <flag> <path>"
\* per service, returning at the first run that fails: [err, cmds].
RECURSIVE S6ControlLoop(_, _, _, _, _)
S6ControlLoop(flag, verb, svcs, failing, log) ==
    IF svcs = <<>> THEN [err |-> NoError, cmds |-> log]
    ELSE LET svc == Head(svcs)
             log2 == Append(log, S6Cmd(<<"s", "6", "-", "s", "v", "c">>, flag, <<fullService(svc)>>))
         IN  IF svc \in failing
             THEN [err |-> Err(verb \o svc \o <<":", " ">> \o ExitError.msg),
                   cmds |-> log2]
             ELSE S6ControlLoop(flag, verb, Tail(svcs), failing, log2)

S6Start(svcs, failing) ==
    S6ControlLoop(<<"-", "u">>, <<"f", "a", "i", "l", "e", "d", " ", "r", "e", "s", "t", "a", "r", "t", "i", "n", "g", " ">>, svcs, failing, <<>>)

S6Stop(svcs, failing) ==
    S6ControlLoop(<<"-", "D", "d">>, <<"f", "a", "i", "l", "e", "d", " ", "r", "e", "s", "t", "a", "r", "t", "i", "n", "g", " ">>, svcs, failing, <<>>)

S6Restart(svcs, failing) ==
    S6ControlLoop(<<"-", "q">>, <<"f", "a", "i", "l", "e", "d", " ", "r", "e", "s", "t", "a", "r", "t", "i", "n", "g", " ">>, svcs, failing, <<>>)

\* The switch of S6.Signal: the s6-svc flag of a signal, empty for the
\* default case.
S6SignalCmd(sig) ==
    CASE sig = "SIGALRM" -> <<"-", "a">>
      [] sig = "SIGABRT" -> <<"-", "b">>
      [] sig = "SIGQUIT" -> <<"-", "q">>
      [] sig = "SIGHUP" -> <<"-", "h">>
      [] sig = "SIGKILL" -> <<"-", "k">>
      [] sig = "SIGTERM" -> <<"-", "t">>
      [] sig = "SIGINT" -> <<"-", "i">>
      [] sig = "SIGUSR1" -> <<"-", "1">>
      [] sig = "SIGUSR2" -> <<"-", "2">>
      [] sig = "SIGCONT" -> <<"-", "c">>
      [] sig = "SIGWINCH" -> <<"-", "y">>
      [] OTHER -> <<>>

\* A variant of S6.Signal that hands all the services to one run of s6-svc.
S6Signal_Batched(sig, svcs, failing) ==
    IF S6SignalCmd(sig) = <<>>
    THEN [err |-> ErrUnsupportedSignal, cmds |-> <<>>]
    ELSE [err |-> IF FailsOn(svcs, failing)
                  THEN Err(<<"f", "a", "i", "l", "e", "d", " ", "s", "i", "g", "n", "a", "l", "i", "n", "g", " ">> \o ExitError.msg) ELSE NoError,
          cmds |-> <<S6Cmd(<<"s", "6", "-", "s", "v", "c">>, S6SignalCmd(sig), fullSvcs(svcs))>>]

S6Signal(sig, svcs, failing) ==
    IF S6SignalCmd(sig) = <<>>
    THEN [err |-> ErrUnsupportedSignal, cmds |-> <<>>]
    ELSE S6ControlLoop(S6SignalCmd(sig), <<"f", "a", "i", "l", "e", "d", " ", "s", "i", "g", "n", "a", "l", "i", "n", "g", " ">>, svcs, failing, <<>>)

\* The signals a caller may pass: those of the two tables, and two more.
Signals ==
    {"SIGSTOP", "SIGCONT", "SIGHUP", "SIGALRM", "SIGINT", "SIGQUIT", "SIGUSR1",
     "SIGUSR2", "SIGTERM", "SIGKILL", "SIGABRT", "SIGWINCH", "SIGPIPE", "SIGCHLD"}

\* The service names a caller may pass.
CallNames == {<<"d", "b">>, <<"w", "e", "b">>}

\* The lists of at most MaxSvcs names.
NameLists == UNION {[1..n -> CallNames] : n \in 0..MaxSvcs}

-----------------------------------------------------------------------------
(* Fg of the Runit adapter: finding the log file and tailing it. *)

\* The names of the logger programs findLogFile knows.
LoggerNames == {<<"t", "i", "n", "y", "l", "o", "g">>, <<"s", "6", "-", "l", "o", "g">>, <<"s", "v", "l", "o", "g", "d">>, <<"m", "u", "l", "t", "i", "l", "o", "g">>}

\* A variant of the scan of findLogFile that takes the first link it can
\* read, whatever its target.
ScanLinks_FirstLink(links, i) ==
    IF \E k \in i..Len(links) : links[k].symlink /\ links[k].ok
    THEN [file |-> links[CHOOSE k \in i..Len(links) :
                            /\ links[k].symlink /\ links[k].ok
                            /\ \A j \in i..(k - 1) :
                                  ~(links[j].symlink /\ links[j].ok)].target,
          err |-> NoError]
    ELSE [file |-> <<>>, err |-> NoError]

\* The loop of findLogFile over the entries of /proc/<pid>/fd, from entry i
\* on: [file, err]. An entry is [symlink, ok, target]: whether its mode has
\* the symlink bit, whether Readlink succeeds, and the link's target.
RECURSIVE ScanLinks(_, _)
ScanLinks(links, i) ==
    IF i > Len(links) THEN [file |-> <<>>, err |-> NoError]
    ELSE IF ~links[i].symlink THEN ScanLinks(links, i + 1)
    ELSE IF ~links[i].ok
    THEN [file |-> <<>>,
          err |-> Err(<<"f", "a", "i", "l", "e", "d", " ", "r", "e", "a", "d", "i", "n", "g", " ", "l", "i", "n", "k", " ">> \o Quote(Itoa(i - 1))
                      \o <<":", " ", "r", "e", "a", "d", "l", "i", "n", "k", ":", " ", "n", "o", " ", "s", "u", "c", "h", " ", "f", "i", "l", "e", " ", "o", "r", " ", "d", "i", "r", "e", "c", "t", "o", "r", "y">>)]
    ELSE IF Base(links[i].target) = <<"c", "u", "r", "r", "e", "n", "t">>
    THEN [file |-> links[i].target, err |-> NoError]
    ELSE ScanLinks(links, i + 1)

\* findLogFile: [file, err]. proc.fs maps the pids of the live processes to
\* [exe, fdOk, fds]: the target of /proc/<pid>/exe, whether /proc/<pid>/fd
\* can be read, and its entries.
findLogFile(pid) ==
    LET dir == Join(<<"/", "p", "r", "o", "c">>, Itoa(pid))
    IN  IF pid \notin DOMAIN proc.fs
        THEN [file |-> <<>>,
              err |-> Err(<<"f", "a", "i", "l", "e", "d", " ", "r", "e", "a", "d", "i", "n", "g", " ", "s", "y", "m", "b", "o", "l", "i", "c", " ", "l", "i", "n", "k", ":", " ", "r", "e", "a", "d", "l", "i", "n", "k", " ">>
                          \o Join(dir, <<"e", "x", "e">>)
                          \o <<":", " ", "n", "o", " ", "s", "u", "c", "h", " ", "f", "i", "l", "e", " ", "o", "r", " ", "d", "i", "r", "e", "c", "t", "o", "r", "y">>)]
        ELSE IF Base(proc.fs[pid].exe) \in LoggerNames
        THEN IF ~proc.fs[pid].fdOk
             THEN [file |-> <<>>,
                   err |-> Err(<<"f", "a", "i", "l", "e", "d", " ", "r", "e", "a", "d", "i", "n", "g", " ", "f", "d", " ", "d", "i", "r", "e", "c", "t", "o", "r", "y", " ">>
                               \o Quote(Join(dir, <<"f", "d">>))
                               \o <<":", " ", "p", "e", "r", "m", "i", "s", "s", "i", "o", "n", " ", "d", "e", "n", "i", "e", "d">>)]
             ELSE ScanLinks(proc.fs[pid].fds, 1)
        ELSE [file |-> <<>>, err |-> NoError]

\* Runit.Fg from the log file on: f is what findLogFile returned.
RunitFgFile(log, f) ==
    IF ~f.err.nil
    THEN [err |-> Err(<<"f", "a", "i", "l", "e", "d", " ", "f", "i", "n", "d", "i", "n", "g", " ", "l", "o", "g", " ", "f", "i", "l", "e", ":", " ">> \o f.err.msg),
          file |-> <<>>, cmds |-> log]
    ELSE IF f.file = <<>>
    THEN [err |-> Err(<<"n", "o", " ", "l", "o", "g", " ", "f", "i", "l", "e", " ", "f", "o", "u", "n", "d">>), file |-> <<>>, cmds |-> log]
    ELSE [err |-> NoError, file |-> f.file, cmds |-> log]

\* Runit.Fg from the logger's pid on: pid is what Atoi returned.
RunitFgPid(log, matches, pid) ==
    IF ~pid.err.nil
    THEN [err |-> Err(<<"f", "a", "i", "l", "e", "d", " ", "p", "a", "r", "s", "i", "n", "g", " ", "l", "o", "g", "g", "e", "r", " ", "p", "r", "o", "c", "e", "s", "s", " ", "p", "i", "d", " ">> \o Quote(matches[2])
                      \o <<":", " ">> \o pid.err.msg),
          file |-> <<>>, cmds |-> log]
    ELSE RunitFgFile(log, findLogFile(pid.val))

\* Runit.Fg from the match of the status text on.
RunitFgMatched(log, matches) ==
    IF ~proc.statusOk
    THEN [err |-> Err(<<"f", "a", "i", "l", "e", "d", " ", "g", "e", "t", "t", "i", "n", "g", " ", "s", "e", "r", "v", "i", "c", "e", " ", "s", "t", "a", "t", "u", "s", ":", " ">> \o ExitError.msg),
          file |-> <<>>, cmds |-> log]
    ELSE IF Len(matches) # 2
    THEN [err |-> Err(<<"f", "a", "i", "l", "e", "d", " ", "p", "a", "r", "s", "i", "n", "g", " ", "l", "o", "g", "g", "e", "r", " ", "p", "r", "o", "c", "e", "s", "s", " ", "s", "t", "a", "t", "u", "s", ":", " ", "%", "!", "w", "(", "<", "n", "i", "l", ">", ")">>),
          file |-> <<>>, cmds |-> log]
    ELSE RunitFgPid(log, matches, Atoi(matches[2]))

\* Runit.Fg up to the start of tail: [err, file, cmds], the log file to tail
\* or the error returned. "sv status <BaseDir>/<svc>" is run first.
RunitFgResolve(svc) ==
    RunitFgMatched(<<RunitCmd(<<"s", "t", "a", "t", "u", "s">>, <<Join(BaseDir, svc)>>)>>,
                   runitLoggerRegexp(proc.statusTxt))

\* The command line of the tail child.
TailCmd(file) == [argv |-> <<<<"t", "a", "i", "l">>, <<"-", "f">>, file>>, env |-> <<>>]

\* The text of the error of cmd.Wait for a child in state c: nil for exit
\* status 0, "exit status N", or "signal: <name>" for a child a signal ended.
SignalText(sig) ==
    CASE sig = "SIGINT" -> <<"i", "n", "t", "e", "r", "r", "u", "p", "t">>
      [] sig = "SIGTERM" -> <<"t", "e", "r", "m", "i", "n", "a", "t", "e", "d">>
      [] sig = "SIGKILL" -> <<"k", "i", "l", "l", "e", "d">>
      [] OTHER -> <<"h", "a", "n", "g", "u", "p">>

WaitError(c) ==
    IF c.st = "exited"
    THEN IF c.code = 0 THEN NoError ELSE Err(<<"e", "x", "i", "t", " ", "s", "t", "a", "t", "u", "s", " ">> \o Itoa(c.code))
    ELSE Err(<<"s", "i", "g", "n", "a", "l", ":", " ">> \o SignalText(c.sig))

\* What Runit.Fg returns once cmd.Wait has returned err.
FgResult(err) ==
    IF ~err.nil /\ ~HasPrefix(err.msg, <<"s", "i", "g", "n", "a", "l", ":">>)
    THEN Err(<<"f", "a", "i", "l", "e", "d", " ", "t", "a", "i", "l", "i", "n", "g", " ", "l", "o", "g", ":", " ">> \o err.msg)
    ELSE NoError

\* The signals Fg asks to be notified of.
NotifySignals == {"SIGINT", "SIGTERM"}

\* The signals with which another process, or the terminal, may end the
\* tail child.
OtherSignals == {"SIGKILL", "SIGINT"}

\* The exit statuses of a tail child that ends on its own.
ExitCodes == {0, 1}

\* The logger's pid in the status texts of the model.
LoggerPid == 124

\* The status texts of a service with and without a logger.
FgStatusTexts ==
    {<<"r", "u", "n", ":", " ", "w", "e", "b", ":", " ", "(", "p", "i", "d", " ", "1", "2", "3", ")", " ", "4", "5", "s", ";", " ", "r", "u", "n", ":", " ", "l", "o", "g", ":", " ", "(", "p", "i", "d", " ", "1", "2", "4", ")", " ", "4", "5", "s", "\n">>,
     <<"r", "u", "n", ":", " ", "w", "e", "b", ":", " ", "(", "p", "i", "d", " ", "1", "2", "3", ")", " ", "4", "5", "s", "\n">>}

\* The entries /proc/<pid>/fd may hold.
FdEntries ==
    {[symlink |-> TRUE, ok |-> TRUE, target |-> <<"/", "v", "a", "r", "/", "l", "o", "g", "/", "w", "e", "b", "/", "c", "u", "r", "r", "e", "n", "t">>],
     [symlink |-> TRUE, ok |-> TRUE, target |-> <<"/", "d", "e", "v", "/", "n", "u", "l", "l">>],
     [symlink |-> TRUE, ok |-> FALSE, target |-> <<>>],
     [symlink |-> FALSE, ok |-> TRUE, target |-> <<>>]}

\* The programs the logger's pid may run.
Exes == {<<"/", "u", "s", "r", "/", "b", "i", "n", "/", "s", "v", "l", "o", "g", "d">>, <<"/", "b", "i", "n", "/", "s", "h">>}

\* What Fg may find: the status query fails; the status has no logger; the
\* logger's process is gone; or it runs a program with some descriptors.
Procs ==
    {[statusOk |-> FALSE, statusTxt |-> <<>>, fs |-> <<>>]}
    \cup {[statusOk |-> TRUE, statusTxt |-> t, fs |-> <<>>] : t \in FgStatusTexts}
    \cup {[statusOk |-> TRUE,
           statusTxt |-> <<"r", "u", "n", ":", " ", "w", "e", "b", ":", " ", "(", "p", "i", "d", " ", "1", "2", "3", ")", " ", "4", "5", "s", ";", " ", "r", "u", "n", ":", " ", "l", "o", "g", ":", " ", "(", "p", "i", "d", " ", "1", "2", "4", ")", " ", "4", "5", "s", "\n">>,
           fs |-> (LoggerPid :> [exe |-> e, fdOk |-> k, fds |-> d])] :
             e \in Exes, k \in BOOLEAN,
             d \in UNION {[1..n -> FdEntries] : n \in 0..MaxFds}}


\* A service whose logger writes /var/log/web/current.
LoggedProc ==
    [statusOk |-> TRUE,
     statusTxt |-> <<"r", "u", "n", ":", " ", "w", "e", "b", ":", " ", "(", "p", "i", "d", " ", "1", "2", "3", ")", " ", "4", "5", "s", ";", " ", "r", "u", "n", ":", " ", "l", "o", "g", ":", " ", "(", "p", "i", "d", " ", "1", "2", "4", ")", " ", "4", "5", "s", "\n">>,
     fs |-> (LoggerPid :>
                [exe |-> <<"/", "u", "s", "r", "/", "b", "i", "n", "/", "s", "v", "l", "o", "g", "d">>, fdOk |-> TRUE,
                 fds |-> <<[symlink |-> TRUE, ok |-> TRUE, target |-> <<"/", "d", "e", "v", "/", "n", "u", "l", "l">>],
                           [symlink |-> TRUE, ok |-> TRUE,
                            target |-> <<"/", "v", "a", "r", "/", "l", "o", "g", "/", "w", "e", "b", "/", "c", "u", "r", "r", "e", "n", "t">>]>>])]

-----------------------------------------------------------------------------
(* The state before any call, and the calls. *)

NoCall == [op |-> "none", sig |-> "none", svcs |-> <<>>, failing |-> {}]

NoReturn == [svcs |-> <<>>, err |-> NoError]

NoProc == [statusOk |-> FALSE, statusTxt |-> <<>>, fs |-> <<>>]

\* The process tree as far as no Terminate call reads it.
NoTree == [ok |-> FALSE, procs |-> <<>>, gone |-> {}]

\* No Fg call yet: the process is alive, its main task is not in Fg, and no
\* tail child, signal task or channel exists.
NoFg ==
    [alive |-> TRUE, main |-> "idle", last |-> "none", n |-> 0,
     child |-> <<>>, task |-> <<>>, chan |-> <<>>]

\* A Status call returned r = [svcs, err, cmds].
StatusReturned(r) ==
    /\ call' = [NoCall EXCEPT !.op = "Status"]
    /\ ret' = [svcs |-> r.svcs, err |-> r.err]
    /\ cmds' = r.cmds
    /\ UNCHANGED <<suite, DebugMode, baseDir, svstat, proc, fg, tree, kills>>

\* The Status command: the adapter lists the base directory and queries
\* every service directory.
Status ==
    \E listing \in Listings(baseDir.files) :
        StatusReturned(StatusOf(listing, DebugMode))

\* A control call returned r = [err, cmds].
Returned(op, sig, svcs, failing, r) ==
    /\ call' = [op |-> op, sig |-> sig, svcs |-> svcs, failing |-> failing]
    /\ ret' = [svcs |-> <<>>, err |-> r.err]
    /\ cmds' = r.cmds
    /\ UNCHANGED <<suite, DebugMode, baseDir, svstat, proc, fg, tree, kills>>

Start ==
    \E svcs \in NameLists, failing \in SUBSET CallNames :
        Returned("Start", "none", svcs, failing,
                 IF suite = "runit" THEN RunitStart(svcs, failing)
                 ELSE S6Start(svcs, failing))

Stop ==
    \E svcs \in NameLists, failing \in SUBSET CallNames :
        Returned("Stop", "none", svcs, failing,
                 IF suite = "runit" THEN RunitStop(svcs, failing)
                 ELSE S6Stop(svcs, failing))

Restart ==
    \E svcs \in NameLists, failing \in SUBSET CallNames :
        Returned("Restart", "none", svcs, failing,
                 IF suite = "runit" THEN RunitRestart(svcs, failing)
                 ELSE S6Restart(svcs, failing))

Signal ==
    \E sig \in Signals, svcs \in NameLists, failing \in SUBSET CallNames :
        Returned("Signal", sig, svcs, failing,
                 IF suite = "runit" THEN RunitSignal(sig, svcs, failing)
                 ELSE S6Signal(sig, svcs, failing))

\* Runit.Fg went on from r = [err, file, cmds], the log file it found or
\* the error: it returns an error at once, or starts the tail child and the
\* task that waits for a signal, and waits for the child.
FgStarted(svc, startOk, r) ==
    /\ call' = [NoCall EXCEPT !.op = "Fg", !.svcs = <<svc>>]
    /\ IF ~r.err.nil
       THEN /\ ret' = [svcs |-> <<>>, err |-> r.err]
            /\ cmds' = r.cmds
            /\ fg' = [fg EXCEPT !.last = "failed"]
       ELSE IF ~startOk
       THEN /\ ret' = [svcs |-> <<>>,
                       err |-> Err(<<"f", "a", "i", "l", "e", "d", " ", "s", "t", "a", "r", "t", "i", "n", "g", " ", "t", "a", "i", "l", ":", " ", "e", "x", "e", "c", ":", " ", "\"", "t", "a", "i", "l", "\"", ":", " ", "e", "x", "e", "c", "u", "t", "a", "b", "l", "e", " ", "f", "i", "l", "e", " ", "n", "o", "t", " ", "f", "o", "u", "n", "d", " ", "i", "n", " ", "$", "P", "A", "T", "H">>)]
            /\ cmds' = r.cmds
            /\ fg' = [fg EXCEPT !.last = "failed"]
       ELSE /\ ret' = NoReturn
            /\ cmds' = Append(r.cmds, TailCmd(r.file))
            /\ fg' = [fg EXCEPT
                        !.main = "waiting", !.last = "started",
                        !.n = fg.n + 1,
                        !.child = Append(fg.child,
                            [st |-> "running", code |-> 0,
                             sig |-> "none", by |-> "none"]),
                        !.task = Append(fg.task,
                            [st |-> "spawned", sig |-> "none", sent |-> "none"]),
                        !.chan = Append(fg.chan, <<>>)]
    /\ UNCHANGED <<suite, DebugMode, baseDir, svstat, proc, tree, kills>>

\* Runit.Fg is called for a service; startOk is whether tail can be started.
FgCall ==
    /\ suite = "runit"
    /\ fg.alive /\ fg.main = "idle" /\ fg.n < MaxFgCalls
    /\ \E svc \in {<<"w", "e", "b">>}, startOk \in BOOLEAN :
          FgStarted(svc, startOk, RunitFgResolve(svc))

\* The signal task of call i makes its channel and registers it.
TaskNotify(i) ==
    /\ fg.alive /\ fg.task[i].st = "spawned"
    /\ fg' = [fg EXCEPT !.task[i].st = "waiting"]
    /\ UNCHANGED <<suite, DebugMode, baseDir, svstat, call, cmds, ret, proc, tree, kills>>

\* The signal task of call i receives a signal from its channel.
TaskReceive(i) ==
    /\ fg.alive /\ fg.task[i].st = "waiting" /\ fg.chan[i] # <<>>
    /\ fg' = [fg EXCEPT !.task[i].st = "forwarding",
                        !.task[i].sig = Head(fg.chan[i]),
                        !.chan[i] = Tail(fg.chan[i])]
    /\ UNCHANGED <<suite, DebugMode, baseDir, svstat, call, cmds, ret, proc, tree, kills>>

\* The signal task of call i sends the signal to its child and ends. A
\* running tail is ended by the signal; for a child that has ended the send
\* changes nothing and its error is dropped. The task notes in sent whether
\* the child was running.
TaskForward(i) ==
    /\ fg.alive /\ fg.task[i].st = "forwarding"
    /\ fg' = [fg EXCEPT
                !.task[i].st = "done",
                !.task[i].sent = IF fg.child[i].st = "running"
                                 THEN "running" ELSE "ended",
                !.child[i] = IF fg.child[i].st = "running"
                             THEN [st |-> "signaled", code |-> 0,
                                   sig |-> fg.task[i].sig, by |-> "forwarded"]
                             ELSE fg.child[i]]
    /\ UNCHANGED <<suite, DebugMode, baseDir, svstat, call, cmds, ret, proc, tree, kills>>

\* The system delivers an interrupt or termination signal to the process: it
\* is put in every registered channel that has room. With no channel
\* registered the signal ends the process.
Interrupt ==
    /\ fg.alive
    /\ \E sig \in NotifySignals :
          IF \A i \in 1..fg.n : fg.task[i].st = "spawned"
          THEN fg' = [fg EXCEPT !.alive = FALSE]
          ELSE fg' = [fg EXCEPT !.chan =
                        [i \in 1..fg.n |->
                            IF fg.task[i].st # "spawned" /\ fg.chan[i] = <<>>
                            THEN <<sig>> ELSE fg.chan[i]]]
    /\ UNCHANGED <<suite, DebugMode, baseDir, svstat, call, cmds, ret, proc, tree, kills>>

\* The tail child of call i ends on its own, with some exit status.
ChildExit(i) ==
    /\ fg.child[i].st = "running"
    /\ \E code \in ExitCodes :
          fg' = [fg EXCEPT !.child[i] =
                    [st |-> "exited", code |-> code, sig |-> "none", by |-> "none"]]
    /\ UNCHANGED <<suite, DebugMode, baseDir, svstat, call, cmds, ret, proc, tree, kills>>

\* The tail child of call i is ended by a signal another process sent.
ChildKilled(i) ==
    /\ fg.child[i].st = "running"
    /\ \E sig \in OtherSignals :
          fg' = [fg EXCEPT !.child[i] =
                    [st |-> "signaled", code |-> 0, sig |-> sig, by |-> "other"]]
    /\ UNCHANGED <<suite, DebugMode, baseDir, svstat, call, cmds, ret, proc, tree, kills>>

\* cmd.Wait returns because the child has ended, and Fg returns.
FgReturn ==
    /\ fg.alive /\ fg.main = "waiting"
    /\ fg.child[fg.n].st # "running"
    /\ ret' = [svcs |-> <<>>, err |-> FgResult(WaitError(fg.child[fg.n]))]
    /\ fg' = [fg EXCEPT !.main = "idle", !.last = "returned"]
    /\ UNCHANGED <<suite, DebugMode, baseDir, svstat, call, cmds, proc, tree, kills>>

-----------------------------------------------------------------------------
(* The specifications. *)

\* The status listing: an adapter in either mode over a base directory.
InitStatus ==
    /\ suite \in {"runit", "s6"}
    /\ DebugMode \in BOOLEAN
    /\ \/ /\ baseDir = [ok |-> FALSE, files |-> {}]
          /\ svstat = <<>>
       \/ \E d \in ModelBaseDirs(suite) :
             /\ baseDir = [ok |-> TRUE, files |-> d.files]
             /\ svstat = d.stat
    /\ call = NoCall
    /\ cmds = <<>>
    /\ ret = NoReturn
    /\ proc = NoProc
    /\ fg = NoFg
    /\ tree = NoTree
    /\ kills = <<>>

NextStatus == Status

SpecStatus == InitStatus /\ [][NextStatus]_vars

\* The control operations of either adapter.
InitControl ==
    /\ suite \in {"runit", "s6"}
    /\ DebugMode \in BOOLEAN
    /\ baseDir = [ok |-> TRUE, files |-> {}]
    /\ svstat = <<>>
    /\ call = NoCall
    /\ cmds = <<>>
    /\ ret = NoReturn
    /\ proc = NoProc
    /\ fg = NoFg
    /\ tree = NoTree
    /\ kills = <<>>

NextControl == Start \/ Stop \/ Restart \/ Signal

SpecControl == InitControl /\ [][NextControl]_vars

\* Fg of the Runit adapter up to the start of tail, over every state of the
\* service and of its logger's /proc.
InitFgResolve ==
    /\ suite = "runit"
    /\ DebugMode \in BOOLEAN
    /\ baseDir = [ok |-> TRUE, files |-> {}]
    /\ svstat = <<>>
    /\ call = NoCall
    /\ cmds = <<>>
    /\ ret = NoReturn
    /\ proc \in Procs
    /\ fg = NoFg
    /\ tree = NoTree
    /\ kills = <<>>

NextFgResolve == FgCall

SpecFgResolve == InitFgResolve /\ [][NextFgResolve]_vars

\* Fg of the Runit adapter for a service whose log file is found, with the
\* tail child, the signal tasks and the signals of the system.
InitFg ==
    /\ suite = "runit"
    /\ DebugMode = FALSE
    /\ baseDir = [ok |-> TRUE, files |-> {}]
    /\ svstat = <<>>
    /\ call = NoCall
    /\ cmds = <<>>
    /\ ret = NoReturn
    /\ proc = LoggedProc
    /\ fg = NoFg
    /\ tree = NoTree
    /\ kills = <<>>

NextFg ==
    \/ FgCall
    \/ FgReturn
    \/ Interrupt
    \/ \E i \in 1..fg.n : TaskNotify(i)
    \/ \E i \in 1..fg.n : TaskReceive(i)
    \/ \E i \in 1..fg.n : TaskForward(i)
    \/ \E i \in 1..fg.n : ChildExit(i)
    \/ \E i \in 1..fg.n : ChildKilled(i)

SpecFg == InitFg /\ [][NextFg]_vars

-----------------------------------------------------------------------------
(* Terminate. *)

\* The test Runit.Terminate makes of a process's name:
\* strings.Contains(proc.Name, fmt.Sprintf("runsvdir %s", o.BaseDir)).
IsRunsvdir(name) == Contains(name, <<"r", "u", "n", "s", "v", "d", "i", "r", " ">> \o BaseDir)

\* The error of syscall.Kill for a process that is gone.
KillError == <<"n", "o", " ", "s", "u", "c", "h", " ", "p", "r", "o", "c", "e", "s", "s">>

\* The error of pstree.New.
TreeError == <<"o", "p", "e", "n", " ", "/", "p", "r", "o", "c", ":", " ", "p", "e", "r", "m", "i", "s", "s", "i", "o", "n", " ", "d", "e", "n", "i", "e", "d">>

\* The loop of Runit.Terminate over tree.Procs, visited in the order given
\* (the order of a map's range is not fixed), from position i with the
\* signals sent delivered: [err, kills]. A kill that fails ends the loop.
RECURSIVE RunitTerminateLoop(_, _, _)
RunitTerminateLoop(order, i, sent) ==
    IF i > Len(order) THEN [err |-> NoError, kills |-> sent]
    ELSE IF ~IsRunsvdir(tree.procs[order[i]])
         THEN RunitTerminateLoop(order, i + 1, sent)
    ELSE IF order[i] \in tree.gone
         THEN [err |-> Err(<<"f", "a", "i", "l", "e", "d", " ", "k", "i", "l", "l", "i", "n", "g", " ", "r", "u", "n", "s", "v", "d", "i", "r", " ", "p", "r", "o", "c", "e", "s", "s", " ">> \o Itoa(order[i])
                           \o <<":", " ">> \o KillError),
               kills |-> sent]
    ELSE RunitTerminateLoop(order, i + 1,
             Append(sent, [pid |-> order[i], sig |-> "SIGHUP",
                           name |-> tree.procs[order[i]]]))

\* Runit.Terminate: [err, cmds, kills].
RunitTerminate(order) ==
    IF ~tree.ok
    THEN [err |-> Err(<<"f", "a", "i", "l", "e", "d", " ", "f", "e", "t", "c", "h", "i", "n", "g", " ", "p", "r", "o", "c", "e", "s", "s", " ", "t", "r", "e", "e", ":", " ">> \o TreeError),
          cmds |-> <<>>, kills |-> <<>>]
    ELSE [err |-> RunitTerminateLoop(order, 1, <<>>).err,
          cmds |-> <<>>,
          kills |-> RunitTerminateLoop(order, 1, <<>>).kills]

\* S6.Terminate: [err, cmds, kills]; fails tells whether s6-svscanctl fails.
S6Terminate(fails) ==
    [err |-> IF fails THEN ExitError ELSE NoError,
     cmds |-> <<S6Cmd(<<"s", "6", "-", "s", "v", "s", "c", "a", "n", "c", "t", "l">>, <<"-", "t">>, <<BaseDir>>)>>,
     kills |-> <<>>]

\* The orders in which the processes of the set S may be visited.
Orders(S) ==
    {o \in [1..Cardinality(S) -> S] :
        \A i, j \in 1..Cardinality(S) : o[i] = o[j] => i = j}

\* The pids of the process tree.
Pids == {200 + i : i \in 1..MaxProcs}

\* The names pstree may give a process: the scanner of this base directory,
\* with and without further arguments and options, the scanner of another
\* base directory whose path starts with this one, and a shell.
ProcNames ==
    {<<"r", "u", "n", "s", "v", "d", "i", "r", " ", "/", "s", "e", "r", "v", "i", "c", "e">>,
     <<"r", "u", "n", "s", "v", "d", "i", "r", " ", "/", "s", "e", "r", "v", "i", "c", "e", " ", "l", "o", "g", ":", " ", ".", ".", ".", ".", ".">>,
     <<"r", "u", "n", "s", "v", "d", "i", "r", " ", "-", "P", " ", "/", "s", "e", "r", "v", "i", "c", "e">>,
     <<"r", "u", "n", "s", "v", "d", "i", "r", " ", "/", "s", "e", "r", "v", "i", "c", "e", "2">>,
     <<"s", "h">>}

\* The process trees: pstree.New fails, or gives some processes, of which
\* some are gone by the time they are signalled.
Trees ==
    {[ok |-> FALSE, procs |-> <<>>, gone |-> {}]}
    \cup UNION {{[ok |-> TRUE, procs |-> p, gone |-> g] :
                    p \in [P -> ProcNames], g \in SUBSET P} :
                P \in SUBSET Pids}

\* The processes of the tree without those a signal was delivered to: a
\* runsvdir that receives SIGHUP exits.
Surviving(procs, sent) ==
    [pid \in DOMAIN procs \ {sent[i].pid : i \in 1..Len(sent)} |-> procs[pid]]

\* A Terminate call returned r = [err, cmds, kills].
TerminateReturned(r) ==
    /\ call' = [NoCall EXCEPT !.op = "Terminate"]
    /\ ret' = [svcs |-> <<>>, err |-> r.err]
    /\ cmds' = r.cmds
    /\ kills' = kills \o r.kills
    /\ tree' = [tree EXCEPT !.procs = Surviving(tree.procs, r.kills)]
    /\ UNCHANGED <<suite, DebugMode, baseDir, svstat, proc, fg>>

\* The terminate command.
Terminate ==
    \/ /\ suite = "runit"
       /\ \E order \in Orders(DOMAIN tree.procs) :
             TerminateReturned(RunitTerminate(order))
    \/ /\ suite = "s6"
       /\ \E fails \in BOOLEAN : TerminateReturned(S6Terminate(fails))

\* Terminate of either adapter, over the process trees.
InitTerminate ==
    /\ suite \in {"runit", "s6"}
    /\ DebugMode \in BOOLEAN
    /\ baseDir = [ok |-> TRUE, files |-> {}]
    /\ svstat = <<>>
    /\ call = NoCall
    /\ cmds = <<>>
    /\ ret = NoReturn
    /\ proc = NoProc
    /\ fg = NoFg
    /\ tree \in Trees
    /\ kills = <<>>

NextTerminate == Terminate

SpecTerminate == InitTerminate /\ [][NextTerminate]_vars

\* Every operation of the model.
Init == InitStatus \/ InitControl \/ InitFgResolve \/ InitTerminate

Next == NextStatus \/ NextControl \/ NextFg \/ NextTerminate

Spec == Init /\ [][Next]_vars

-----------------------------------------------------------------------------
(* The properties. *)

\* The names of the directories of the base directory.
DirSet == {f.name : f \in {g \in baseDir.files : g.isDir}}

\* The names of the services returned.
ReturnedNames == {ret.svcs[i].Name : i \in 1..Len(ret.svcs)}

\* The lexicographic rank of the service names of the model.
NameRank(n) ==
    CASE n = <<"a", "p", "p">> -> 1
      [] n = <<"d", "b">> -> 2
      [] n = <<"l", "o", "g">> -> 3
      [] n = <<"w", "e", "b">> -> 4

\* The signals of the adapters' mapping tables.
RunitSignalTable ==
    {"SIGSTOP", "SIGCONT", "SIGHUP", "SIGALRM", "SIGINT", "SIGQUIT", "SIGUSR1",
     "SIGUSR2", "SIGTERM", "SIGKILL"}

S6SignalTable ==
    {"SIGALRM", "SIGABRT", "SIGQUIT", "SIGHUP", "SIGKILL", "SIGTERM", "SIGINT",
     "SIGUSR1", "SIGUSR2", "SIGCONT", "SIGWINCH"}

SignalTable == IF suite = "runit" THEN RunitSignalTable ELSE S6SignalTable

\* C1: Signal with a signal that is not in the adapter's table returns
\* ErrUnsupportedSignal and runs no command, whatever the list of names.
C1_UnsupportedSignalRunsNothing ==
    (call.op = "Signal" /\ call.sig \notin SignalTable)
        => (ret.err = ErrUnsupportedSignal /\ cmds = <<>>)

\* Runit's Signal was called with SIGWINCH for two services and refused it;
\* S6's table has SIGWINCH and Runit's has not.
C1_Witness ==
    /\ suite = "runit" /\ call.op = "Signal" /\ call.sig = "SIGWINCH"
    /\ "SIGWINCH" \in S6SignalTable
    /\ Len(call.svcs) = 2
    /\ ret.err = ErrUnsupportedSignal

\* C2: the services Status returns are in strictly increasing order of name,
\* and each is a directory of the base directory.
C2_StatusSortedSubdirs ==
    call.op = "Status" =>
        /\ \A i \in 1..(Len(ret.svcs) - 1) :
              NameRank(ret.svcs[i].Name) < NameRank(ret.svcs[i + 1].Name)
        /\ \A i \in 1..Len(ret.svcs) : ret.svcs[i].Name \in DirSet

\* Status returned two services from a base directory that also holds an
\* entry that is no directory.
C2_Witness ==
    /\ call.op = "Status"
    /\ Len(ret.svcs) = 2
    /\ \E f \in baseDir.files : ~f.isDir

\* Whether the status text of directory n matches the adapter's expression,
\* and whether its state word is one the adapter maps.
Matches(n) ==
    IF suite = "runit" THEN runitStatusRegexp(svstat[n].raw) # <<>>
    ELSE s6StatusRegexp(svstat[n].raw) # <<>>

KnownWord(n) ==
    IF suite = "runit"
    THEN runitStatusRegexp(svstat[n].raw)[2]
             \in {<<"r", "u", "n">>, <<"d", "o", "w", "n">>, <<"b", "a", "c", "k", "o", "f", "f">>, <<"d", "i", "s", "a", "b", "l", "e", "d">>}
    ELSE s6StatusRegexp(svstat[n].raw)[2] \in {<<"u", "p">>, <<"d", "o", "w", "n">>}

\* Whether the status text of directory n, which matches, has no pid.
NoPid(n) ==
    IF suite = "runit" THEN runitStatusRegexp(svstat[n].raw)[3] = <<>>
    ELSE s6PidRegexp(s6StatusRegexp(svstat[n].raw)[3]) = <<>>

\* The names of the services of a list.
NamesOf(svcs) == {svcs[i].Name : i \in 1..Len(svcs)}

\* C3 for one listing of the base directory, whose status queries all
\* succeed and whose texts all either match with a mapped state (good) or do
\* not match (bad).
C3_For(normal, debug, good, bad) ==
    /\ Cardinality(bad) = 1 =>
          /\ normal.err.nil
          /\ NamesOf(normal.svcs) = good
          /\ Len(normal.svcs) = Cardinality(DirSet) - 1
          /\ ~debug.err.nil
          /\ \A m \in bad :
                \/ Contains(debug.err.msg, svstat[m].raw)
                \/ Contains(debug.err.msg, Escape(svstat[m].raw))
    /\ bad = {} =>
          /\ normal.err.nil /\ debug.err.nil
          /\ debug.svcs = normal.svcs

\* C3: with exactly one status text that does not match, normal mode returns
\* the other services and no error and debug mode returns an error that
\* holds the text (as it is, or quoted); with none, both modes return the
\* same list.
C3_ModesDifferOnlyInVisibility ==
    (/\ call.op = "Status" /\ baseDir.ok
     /\ \A n \in DirSet : ~svstat[n].fail /\ (Matches(n) => KnownWord(n)))
        => \A l \in Listings(baseDir.files) :
              C3_For(StatusOf(l, FALSE), StatusOf(l, TRUE),
                     {n \in DirSet : Matches(n)}, {n \in DirSet : ~Matches(n)})

\* The state the spec gives for a state word of sv.
SpecState(word) ==
    CASE word = <<"r", "u", "n">> -> StatusUp
      [] word = <<"d", "o", "w", "n">> -> StatusDown
      [] word = <<"b", "a", "c", "k", "o", "f", "f">> -> StatusBackoff
      [] word = <<"d", "i", "s", "a", "b", "l", "e", "d">> -> StatusDisabled
      [] OTHER -> StatusUnknown

\* The base directory holds exactly the directories web and db, for which
\* the tool prints the texts forWeb and forDb.
WebAndDb(forWeb, forDb) ==
    /\ baseDir.ok
    /\ baseDir.files = {[name |-> <<"w", "e", "b">>, isDir |-> TRUE],
                        [name |-> <<"d", "b">>, isDir |-> TRUE]}
    /\ svstat[<<"w", "e", "b">>] = [fail |-> FALSE, raw |-> forWeb]
    /\ svstat[<<"d", "b">>] = [fail |-> FALSE, raw |-> forDb]

DbDownWebUp ==
    <<Service(<<"d", "b">>, StatusDown, 0, 12), Service(<<"w", "e", "b">>, StatusUp, 123, 45)>>

\* C4 as stated: with the texts "run: (pid 123) 45s" for web and "down: 12s"
\* for db, Runit's Status returns db down for 12s and web up with pid 123
\* for 45s, and no error.
C4_ScenarioAsStated ==
    (/\ suite = "runit" /\ call.op = "Status"
     /\ WebAndDb(<<"r", "u", "n", ":", " ", "(", "p", "i", "d", " ", "1", "2", "3", ")", " ", "4", "5", "s">>, <<"d", "o", "w", "n", ":", " ", "1", "2", "s">>))
        => (ret.err.nil /\ ret.svcs = DbDownWebUp)

\* C4 as amended: with the texts "run: web: (pid 123) 45s" for web and
\* "down: db: 12s" for db, Runit's Status returns db down for 12s and web up
\* with pid 123 for 45s, and no error; whenever Status returns no error, a
\* directory whose text is <state>: <name>:[ (pid N)] Ms is returned with the
\* mapped state (Unknown for another word), pid N (or 0) and M seconds; and a
\* repeated call returns the same.
C4_RunitStatusParsed ==
    (suite = "runit" /\ call.op = "Status") =>
        /\ WebAndDb(<<"r", "u", "n", ":", " ", "w", "e", "b", ":", " ", "(", "p", "i", "d", " ", "1", "2", "3", ")", " ", "4", "5", "s", "\n">>, <<"d", "o", "w", "n", ":", " ", "d", "b", ":", " ", "1", "2", "s", "\n">>)
              => (ret.err.nil /\ ret.svcs = DbDownWebUp)
        /\ (baseDir.ok /\ ret.err.nil) =>
              \A n \in DirSet :
              \A word \in {<<"r", "u", "n">>, <<"d", "o", "w", "n">>, <<"b", "a", "c", "k", "o", "f", "f">>, <<"d", "i", "s", "a", "b", "l", "e", "d">>, <<"f", "i", "n", "i", "s", "h">>} :
              \A pid \in {0, 7, 123} :
              \A secs \in {0, 1, 3, 12, 45} :
                  svstat[n] = [fail |-> FALSE, raw |-> RunitLine(word, n, pid, secs)]
                      => \E i \in 1..Len(ret.svcs) :
                            ret.svcs[i] = Service(n, SpecState(word), pid, secs)
        /\ \A l \in Listings(baseDir.files) :
              /\ StatusOf(l, DebugMode).svcs = ret.svcs
              /\ StatusOf(l, DebugMode).err = ret.err

\* Runit's Status returned db down and web up from the texts sv prints.
C4_Witness ==
    /\ suite = "runit" /\ call.op = "Status"
    /\ WebAndDb(<<"r", "u", "n", ":", " ", "w", "e", "b", ":", " ", "(", "p", "i", "d", " ", "1", "2", "3", ")", " ", "4", "5", "s", "\n">>, <<"d", "o", "w", "n", ":", " ", "d", "b", ":", " ", "1", "2", "s", "\n">>)
    /\ ret.svcs = DbDownWebUp

\* C5: when every status text matches with a mapped state, Status returns,
\* in either mode, a Service with Pid 0 for each directory whose text has no
\* pid.
C5_MissingPidIsNoFailure ==
    (/\ call.op = "Status" /\ baseDir.ok
     /\ \A n \in DirSet : ~svstat[n].fail /\ Matches(n) /\ KnownWord(n))
        => \A n \in DirSet :
              NoPid(n) => \E i \in 1..Len(ret.svcs) :
                              ret.svcs[i].Name = n /\ ret.svcs[i].Pid = 0

\* The first position of the list whose service the control tool fails on.
FirstFailing(svcs, failing) ==
    CHOOSE k \in 1..Len(svcs) :
        svcs[k] \in failing /\ \A j \in 1..(k - 1) : svcs[j] \notin failing

\* C6: when the control command of Start, Stop or Restart fails for a
\* target, the error returned names the first such target, and the last
\* command run is the one that failed on it.
C6_FirstFailureNamed ==
    (/\ call.op \in {"Start", "Stop", "Restart"}
     /\ \E k \in 1..Len(call.svcs) : call.svcs[k] \in call.failing)
        => LET svc == call.svcs[FirstFailing(call.svcs, call.failing)]
           IN  /\ ~ret.err.nil
               /\ Contains(ret.err.msg, svc)
               /\ cmds # <<>>
               /\ \E a \in 1..Len(cmds[Len(cmds)].argv) :
                     cmds[Len(cmds)].argv[a] = Join(BaseDir, svc)

\* C7: Fg returns after its child has ended: nil when the signal the task
\* forwarded ended the child, an error when the child ended on its own, by
\* an exit or by a signal that was not forwarded.
C7_FgReturnValue ==
    fg.last = "returned" =>
        /\ fg.child[fg.n].st # "running"
        /\ fg.child[fg.n].by = "forwarded" => ret.err.nil
        /\ fg.child[fg.n].by # "forwarded" => ~ret.err.nil

\* The cases of C8: the status query fails, the status text has no logger
\* pid, the logger's program is not a known logger, or no descriptor of the
\* logger points at a file named current.
NoLogPath ==
    \/ ~proc.statusOk
    \/ ~Contains(proc.statusTxt, <<"l", "o", "g", ":", " ", "(", "p", "i", "d", " ", "1", "2", "4", ")">>)
    \/ /\ LoggerPid \in DOMAIN proc.fs
       /\ \/ Base(proc.fs[LoggerPid].exe)
                \notin {<<"t", "i", "n", "y", "l", "o", "g">>, <<"s", "6", "-", "l", "o", "g">>, <<"s", "v", "l", "o", "g", "d">>, <<"m", "u", "l", "t", "i", "l", "o", "g">>}
          \/ \A k \in 1..Len(proc.fs[LoggerPid].fds) :
                ~(/\ proc.fs[LoggerPid].fds[k].symlink
                  /\ proc.fs[LoggerPid].fds[k].ok
                  /\ Base(proc.fs[LoggerPid].fds[k].target) = <<"c", "u", "r", "r", "e", "n", "t">>)

\* C8: in these cases Runit's Fg returns an error and starts no tail.
C8_NoLogNoTail ==
    (call.op = "Fg" /\ NoLogPath) =>
        /\ ~ret.err.nil
        /\ fg.n = 0 /\ fg.main = "idle" /\ fg.child = <<>>
        /\ \A i \in 1..Len(cmds) : cmds[i].argv[1] # <<"t", "a", "i", "l">>

\* Fg was called for a logger that runs svlogd with descriptors of which
\* none points at a file named current, and returned "no log file found".
C8_Witness ==
    /\ call.op = "Fg"
    /\ LoggerPid \in DOMAIN proc.fs
    /\ Base(proc.fs[LoggerPid].exe) = <<"s", "v", "l", "o", "g", "d">>
    /\ proc.fs[LoggerPid].fdOk
    /\ \E k \in 1..Len(proc.fs[LoggerPid].fds) :
          proc.fs[LoggerPid].fds[k].target = <<"/", "d", "e", "v", "/", "n", "u", "l", "l">>
    /\ ret.err = Err(<<"n", "o", " ", "l", "o", "g", " ", "f", "i", "l", "e", " ", "f", "o", "u", "n", "d">>)
    /\ fg.n = 0

\* The number of runs of the control tool of S6 for these services: up to
\* and including the first that fails.
S6Runs(svcs, failing) ==
    IF \E k \in 1..Len(svcs) : svcs[k] \in failing
    THEN FirstFailing(svcs, failing) ELSE Len(svcs)

\* C9: S6's Signal with a signal of its table runs s6-svc once per name, in
\* order, with the signal's flag (-1 for usr1) and the path of the one name,
\* and runs none after the first that fails.
C9_S6SignalOncePerName ==
    (suite = "s6" /\ call.op = "Signal" /\ call.sig \in S6SignalTable) =>
        /\ Len(cmds) = S6Runs(call.svcs, call.failing)
        /\ \A i \in 1..Len(cmds) :
              /\ cmds[i].argv = <<<<"s", "6", "-", "s", "v", "c">>, S6SignalCmd(call.sig),
                                  BaseDir \o <<"/">> \o call.svcs[i]>>
              /\ call.sig = "SIGUSR1" => cmds[i].argv[2] = <<"-", "1">>
        /\ ret.err.nil <=> (\A k \in 1..Len(call.svcs) : call.svcs[k] \notin call.failing)
        /\ (call.sig = "SIGUSR1" /\ call.svcs = <<<<"w", "e", "b">>>>) => Len(cmds) = 1

\* S6's Signal was called with usr1 for two services, the tool failed on
\* the first, and one command was run.
C9_Witness ==
    /\ suite = "s6" /\ call.op = "Signal" /\ call.sig = "SIGUSR1"
    /\ Len(call.svcs) = 2
    /\ call.svcs[1] \in call.failing
    /\ Len(cmds) = 1
    /\ ~ret.err.nil

\* C10: in normal mode a Service returned by Status has a pid only if it is
\* up.
C10_PidOnlyWhenUp ==
    (call.op = "Status" /\ ~DebugMode) =>
        \A i \in 1..Len(ret.svcs) :
            ret.svcs[i].Pid # 0 => ret.svcs[i].Status = StatusUp

\* C11: for the S6 adapter, when every status text matches the grammar
\* (up|down) (<detail>) <N>/, Status returns no error, in debug mode as in
\* normal mode, and a Service with a Duration of N seconds for each
\* directory.
C11_S6DurationSeconds ==
    (/\ suite = "s6" /\ call.op = "Status" /\ baseDir.ok
     /\ \A n \in DirSet : ~svstat[n].fail /\ Matches(n) /\ KnownWord(n))
        => /\ ret.err.nil
           /\ \A n \in DirSet :
                 \E i \in 1..Len(ret.svcs) :
                     /\ ret.svcs[i].Name = n
                     /\ ret.svcs[i].Duration
                            = DecimalValue(s6StatusRegexp(svstat[n].raw)[4])

\* Whether a process's name is the scan-directory invocation of exactly this
\* base directory: its directory argument is BaseDir, not a longer path.
NamesBaseDir(name) ==
    \/ name = <<"r", "u", "n", "s", "v", "d", "i", "r", " ">> \o BaseDir
    \/ HasPrefix(name, <<"r", "u", "n", "s", "v", "d", "i", "r", " ">> \o BaseDir \o <<" ">>)

\* C12: Runit's Terminate delivers SIGHUP only to processes whose
\* scan-directory invocation names exactly this base directory; with the
\* process tree read and no such process in it, it signals nothing and
\* returns nil.
C12_TerminateExactScanner ==
    (suite = "runit" /\ call.op = "Terminate") =>
        /\ \A i \in 1..Len(kills) :
              kills[i].sig = "SIGHUP" /\ NamesBaseDir(kills[i].name)
        /\ (/\ tree.ok /\ kills = <<>>
            /\ \A pid \in DOMAIN tree.procs : ~NamesBaseDir(tree.procs[pid]))
              => ret.err.nil

\* C13: of every Fg call that started a tail child and has returned, the
\* signal task has received one signal, forwarded it to the running child
\* and ended: no task of a returned call is still waiting on its channel,
\* and no task forwards a signal to a child that has ended.
C13_OneMessagePerFg ==
    /\ \A i \in 1..fg.n :
          (i < fg.n \/ fg.main = "idle") =>
              fg.task[i].st = "done" /\ fg.task[i].sent = "running"
    /\ \A i \in 1..fg.n : fg.task[i].sent # "ended"

=============================================================================
